---- MODULE Spec2Model ----
(***************************************************************************)
(* Model of src/parse_sputnik.py: one run of main(), i.e. load_html,       *)
(* parse_trips (payload location, find_timetable, normalisation with       *)
(* classify_schedule_days, sort), filter_trips, the JSON write and the     *)
(* console report.                                                         *)
(*                                                                         *)
(* Conventions                                                             *)
(*  - Python str values that the code compares character by character     *)
(*    (departure_iso, time) are sequences of code points.                  *)
(*  - The Cyrillic literals of the source are transliterated, because the  *)
(*    module is ASCII: "budni" (line 60), "ezhednevno" (line 63),          *)
(*    "vse" and "vsyo" (line 104).                                         *)
(*  - Python None is the string PyNone; an exception is a record           *)
(*    [type, at] with the exception class and the source line raising it.  *)
(*  - A decoded JSON value is a record tagged by kind: "null", "map"       *)
(*    (items: sequence of [key, val] in insertion order) or "list".        *)
(***************************************************************************)
EXTENDS Integers, Sequences, FiniteSets, TLC

\* ------------------------------------------------------------------ bounds
MaxTrips == 3
MaxSections == 3

\* --------------------------------------------------------- program values
PyNone == "<None>"
NoError == [type |-> "none", at |-> 0]
Err(t, l) == [type |-> t, at |-> l]

DEFAULT_URL == "https://www.tutu.ru/station.php?nnst=45807"
DEFAULT_HTML_PATH == "data/station_45807.html"
DEFAULT_JSON_PATH == "data/trips.json"

FilterChoices == {"budni", "ezhednevno", "all", "vse", "vsyo"}

\* Optional members of a mapping: present with a value, or absent.
Some(v) == [has |-> TRUE, v |-> v]
Absent == [has |-> FALSE]

\* ------------------------------------------------------- decoded JSON tree
Null == [kind |-> "null"]
Map(items) == [kind |-> "map", items |-> items]
List(items) == [kind |-> "list", items |-> items]
EmptyMap == Map(<<>>)
IsDict(j) == j.kind = "map"

\* `key in d` for a dict d
HasKey(d, k) == \E i \in 1..Len(d.items) : d.items[i].key = k

\* d[key] for a dict d that has the key (keys of a decoded object are unique)
Item(d, k) == d.items[CHOOSE i \in 1..Len(d.items) : d.items[i].key = k].val

\* d.get(key, default)
DictGet(d, k, default) == IF HasKey(d, k) THEN Item(d, k) ELSE default

\* ------------------------------------------------------------ characters
Digits2(n) == <<48 + (n \div 10), 48 + (n % 10)>>
Digits4(n) == Digits2(n \div 100) \o Digits2(n % 100)
Digits6(n) == Digits2(n \div 10000) \o Digits4(n % 10000)

RECURSIVE StrLess(_, _)
\* Python's str `<`: lexicographic by code point, a proper prefix is smaller.
StrLess(a, b) ==
  IF b = <<>> THEN FALSE
  ELSE IF a = <<>> THEN TRUE
  ELSE IF Head(a) # Head(b) THEN Head(a) < Head(b)
  ELSE StrLess(Tail(a), Tail(b))

\* ------------------------------------------------------------ timestamps
\* The source text of a departure timestamp, by its parts; wellFormed is
\* FALSE for a text datetime.fromisoformat rejects.  frac holds the digits
\* written after the seconds (none, or three), offset the UTC offset in
\* minutes.
RawTime(h, m, s, frac, off) ==
  [wellFormed |-> TRUE, year |-> 2024, month |-> 5, day |-> 1,
   hour |-> h, minute |-> m, second |-> s, frac |-> frac, offset |-> off]
MalformedTime == [RawTime(0, 0, 0, <<>>, 0) EXCEPT !.wellFormed = FALSE]

RECURSIVE FracValue(_, _)
\* digits after the decimal point, scaled to microseconds
FracValue(frac, scale) ==
  IF frac = <<>> THEN 0
  ELSE Head(frac) * scale + FracValue(Tail(frac), scale \div 10)

\* datetime.fromisoformat on a well-formed text
fromisoformat(raw) ==
  [year |-> raw.year, month |-> raw.month, day |-> raw.day,
   hour |-> raw.hour, minute |-> raw.minute, second |-> raw.second,
   microsecond |-> FracValue(raw.frac, 100000), utcoffset |-> raw.offset]

\* datetime.isoformat(): the microseconds are written only when non-zero,
\* always with six digits; the offset as a sign and HH:MM.
isoformat(dt) ==
  LET abs == IF dt.utcoffset < 0 THEN 0 - dt.utcoffset ELSE dt.utcoffset
  IN Digits4(dt.year) \o <<45>> \o Digits2(dt.month) \o <<45>> \o Digits2(dt.day)
     \o <<84>> \o Digits2(dt.hour) \o <<58>> \o Digits2(dt.minute)
     \o <<58>> \o Digits2(dt.second)
     \o (IF dt.microsecond # 0 THEN <<46>> \o Digits6(dt.microsecond) ELSE <<>>)
     \o <<(IF dt.utcoffset < 0 THEN 45 ELSE 43)>>
     \o Digits2(abs \div 60) \o <<58>> \o Digits2(abs % 60)

\* datetime.strftime("%H:%M")
strftime_HM(dt) == Digits2(dt.hour) \o <<58>> \o Digits2(dt.minute)

\* --------------------------------------------------- classify_schedule_days
SeqToSet(s) == {s[i] : i \in 1..Len(s)}

\* the elements of a finite set of integers, smallest first
RECURSIVE Ascending(_)
Ascending(S) ==
  IF S = {} THEN <<>>
  ELSE LET m == CHOOSE x \in S : \A y \in S : x <= y
       IN <<m>> \o Ascending(S \ {m})

classify_schedule_days(days) ==
  LET day_set == SeqToSet(days)
  IN IF day_set = {1, 2, 3, 4, 5} THEN "budni"
     ELSE IF day_set = {1, 2, 3, 4, 5, 6, 7} THEN "ezhednevno"
     ELSE PyNone

\* ----------------------------------------------------------- find_timetable
RECURSIVE FindFrom(_, _)
\* the loop of find_timetable over values.values(), from position i
FindFrom(items, i) ==
  IF i > Len(items) THEN [ok |-> FALSE, error |-> Err("ValueError", 53)]
  ELSE IF IsDict(items[i].val) /\ HasKey(items[i].val, "timetable")
       THEN [ok |-> TRUE, timetable |-> Item(items[i].val, "timetable")]
       ELSE FindFrom(items, i + 1)

RECURSIVE FindLastFrom(_, _)
FindLastFrom(items, i) ==
  IF i < 1 THEN [ok |-> FALSE, error |-> Err("ValueError", 53)]
  ELSE IF IsDict(items[i].val) /\ HasKey(items[i].val, "timetable")
       THEN [ok |-> TRUE, timetable |-> Item(items[i].val, "timetable")]
       ELSE FindLastFrom(items, i - 1)

\* find_timetable, were it to keep scanning and return the last match
find_timetable_last(values) ==
  IF ~IsDict(values) THEN [ok |-> FALSE, error |-> Err("AttributeError", 49)]
  ELSE FindLastFrom(values.items, Len(values.items))

find_timetable(values) ==
  IF ~IsDict(values) THEN [ok |-> FALSE, error |-> Err("AttributeError", 49)]
  ELSE FindFrom(values.items, 1)

\* ------------------------------------------------------------- parse_trips
\* lines 69-76: the script element, json.loads and the props.pageProps.values
\* walk.  page.script is "absent" (no element with id __NEXT_DATA__),
\* "empty" (element without text) or "text"; page.json_ok tells whether the
\* text decodes; page.data is the decoded document.
\* (GetOrEmpty is .get(key, {}).)
\* .get(key) without the {} default
GetOrNone(d, k) == DictGet(d, k, Null)

GetOrEmpty(d, k) == DictGet(d, k, EmptyMap)

\* locate_values, were line 71 to test only `not script_tag`: json.loads(None)
locate_values_unchecked(page) ==
  IF page.script = "absent" THEN [ok |-> FALSE, error |-> Err("ValueError", 72)]
  ELSE IF page.script = "empty" THEN [ok |-> FALSE, error |-> Err("TypeError", 74)]
  ELSE IF ~page.json_ok THEN [ok |-> FALSE, error |-> Err("JSONDecodeError", 74)]
  ELSE [ok |-> TRUE, values |-> EmptyMap]

locate_values(page) ==
  IF page.script # "text" THEN [ok |-> FALSE, error |-> Err("ValueError", 72)]
  ELSE IF ~page.json_ok THEN [ok |-> FALSE, error |-> Err("JSONDecodeError", 74)]
  ELSE IF ~IsDict(page.data) THEN [ok |-> FALSE, error |-> Err("AttributeError", 76)]
  ELSE LET props == GetOrEmpty(page.data, "props")
       IN IF ~IsDict(props) THEN [ok |-> FALSE, error |-> Err("AttributeError", 76)]
          ELSE LET pageProps == GetOrEmpty(props, "pageProps")
               IN IF ~IsDict(pageProps)
                  THEN [ok |-> FALSE, error |-> Err("AttributeError", 76)]
                  ELSE [ok |-> TRUE, values |-> GetOrEmpty(pageProps, "values")]

\* lines 81-94: one timetable entry to one trip record.  An entry is
\* [departureDateTime, departure_name, arrival_name, number, schedule]:
\* the text of item["departureDateTime"] and the optional members
\* item["train"]["route"]["departure"]["name"], ...["arrival"]["name"],
\* item["train"]["number"], item["schedule"].
\* normalize_item, were it to store the days sorted and without repeats
normalize_item_sorted_days(item) ==
  IF ~item.departureDateTime.wellFormed
  THEN [ok |-> FALSE, error |-> Err("ValueError", 81)]
  ELSE IF ~item.departure_name.has THEN [ok |-> FALSE, error |-> Err("KeyError", 89)]
  ELSE IF ~item.arrival_name.has THEN [ok |-> FALSE, error |-> Err("KeyError", 90)]
  ELSE
    LET dep_datetime == fromisoformat(item.departureDateTime)
        schedule_days == IF item.schedule.has THEN item.schedule.v ELSE <<>>
    IN [ok |-> TRUE,
        trip |-> [time |-> strftime_HM(dep_datetime),
                  departure_iso |-> isoformat(dep_datetime),
                  from |-> item.departure_name.v,
                  to |-> item.arrival_name.v,
                  train_number |-> IF item.number.has THEN item.number.v ELSE "",
                  days |-> Ascending(SeqToSet(schedule_days)),
                  days_label |-> classify_schedule_days(schedule_days)]]

normalize_item(item) ==
  IF ~item.departureDateTime.wellFormed
  THEN [ok |-> FALSE, error |-> Err("ValueError", 81)]
  ELSE IF ~item.departure_name.has THEN [ok |-> FALSE, error |-> Err("KeyError", 89)]
  ELSE IF ~item.arrival_name.has THEN [ok |-> FALSE, error |-> Err("KeyError", 90)]
  ELSE
    LET dep_datetime == fromisoformat(item.departureDateTime)
        schedule_days == IF item.schedule.has THEN item.schedule.v ELSE <<>>
    IN [ok |-> TRUE,
        trip |-> [time |-> strftime_HM(dep_datetime),
                  departure_iso |-> isoformat(dep_datetime),
                  from |-> item.departure_name.v,
                  to |-> item.arrival_name.v,
                  train_number |-> IF item.number.has THEN item.number.v ELSE "",
                  days |-> schedule_days,
                  days_label |-> classify_schedule_days(schedule_days)]]

RECURSIVE normalize_loop_skip(_, _, _)
\* the loop, were it to skip an entry that fails instead of raising
normalize_loop_skip(timetable, i, acc) ==
  IF i > Len(timetable) THEN [ok |-> TRUE, trips |-> acc]
  ELSE LET r == normalize_item(timetable[i])
       IN normalize_loop_skip(timetable, i + 1,
                              IF r.ok THEN Append(acc, r.trip) ELSE acc)

RECURSIVE normalize_loop(_, _, _)
\* lines 79-95: the loop over the timetable; the first failing entry raises
normalize_loop(timetable, i, acc) ==
  IF i > Len(timetable) THEN [ok |-> TRUE, trips |-> acc]
  ELSE LET r == normalize_item(timetable[i])
       IN IF r.ok THEN normalize_loop(timetable, i + 1, Append(acc, r.trip))
          ELSE [ok |-> FALSE, error |-> r.error]

\* line 98: the sort key and list.sort, which is stable and ascending
SortKeyLess(a, b) == StrLess(a.departure_iso, b.departure_iso)

RECURSIVE InsertSorted(_, _)
InsertSorted(s, x) ==
  IF s = <<>> THEN <<x>>
  ELSE IF SortKeyLess(x, Head(s)) THEN <<x>> \o s
  ELSE <<Head(s)>> \o InsertSorted(Tail(s), x)

RECURSIVE InsertBeforeEqual(_, _)
InsertBeforeEqual(s, x) ==
  IF s = <<>> THEN <<x>>
  ELSE IF ~SortKeyLess(Head(s), x) THEN <<x>> \o s
  ELSE <<Head(s)>> \o InsertBeforeEqual(Tail(s), x)

RECURSIVE sort_trips_unstable(_)
\* an ascending sort that reverses the input order of equal keys
sort_trips_unstable(s) ==
  IF s = <<>> THEN <<>>
  ELSE InsertBeforeEqual(sort_trips_unstable(SubSeq(s, 1, Len(s) - 1)), s[Len(s)])

RECURSIVE sort_trips(_)
sort_trips(s) ==
  IF s = <<>> THEN <<>>
  ELSE InsertSorted(sort_trips(SubSeq(s, 1, Len(s) - 1)), s[Len(s)])

\* ------------------------------------------------------------ filter_trips
RECURSIVE SelectLabel(_, _)
SelectLabel(trips, label) ==
  IF trips = <<>> THEN <<>>
  ELSE (IF Head(trips).days_label = label THEN <<Head(trips)>> ELSE <<>>)
       \o SelectLabel(Tail(trips), label)

\* filter_trips, were it to know only the spelling "all"
filter_trips_all_only(trips, filter_mode) ==
  IF filter_mode = "all" THEN trips
  ELSE SelectLabel(trips, filter_mode)

filter_trips(trips, filter_mode) ==
  IF filter_mode \in {"all", "vse", "vsyo"} THEN trips
  ELSE SelectLabel(trips, filter_mode)

\* --------------------------------------------------------------- load_html
\* lines 23-40.  env tells what the outside world holds: whether the GET
\* succeeds and what it returns, whether the local file exists and what it
\* holds.  The result carries the I/O operations performed, in order.
\* load_html, were a failed download to fall back to the local file
load_html_fallback(env, source_path, url, save_html) ==
  IF url # "" /\ env.fetch_ok
  THEN [ok |-> TRUE, html |-> env.net_page,
        io |-> <<[op |-> "get", target |-> url]>>
               \o (IF save_html.has
                   THEN <<[op |-> "write", target |-> save_html.v]>>
                   ELSE <<>>)]
  ELSE LET tried == IF url # "" THEN <<[op |-> "get", target |-> url]>> ELSE <<>>
       IN IF ~env.file_exists
          THEN [ok |-> FALSE, error |-> Err("FileNotFoundError", 36), io |-> tried]
          ELSE [ok |-> TRUE, html |-> env.file_page,
                io |-> tried \o <<[op |-> "read", target |-> source_path]>>]

load_html(env, source_path, url, save_html) ==
  IF url # ""
  THEN IF ~env.fetch_ok
       THEN [ok |-> FALSE, error |-> Err("HTTPError", 26),
             io |-> <<[op |-> "get", target |-> url]>>]
       ELSE [ok |-> TRUE, html |-> env.net_page,
             io |-> <<[op |-> "get", target |-> url]>>
                    \o (IF save_html.has
                        THEN <<[op |-> "write", target |-> save_html.v]>>
                        ELSE <<>>)]
  ELSE IF ~env.file_exists
       THEN [ok |-> FALSE, error |-> Err("FileNotFoundError", 36), io |-> <<>>]
       ELSE [ok |-> TRUE, html |-> env.file_page,
             io |-> <<[op |-> "read", target |-> source_path]>>]

\* -------------------------------------------------------------------- state
VARIABLES
  args,       \* parsed command line: html, url, save_html, filter_mode, json_out
  env,        \* the network and the file system as the run finds them
  pc,         \* position of main()
  html,       \* the page text loaded by load_html
  values,     \* parse_trips: props.pageProps.values
  timetable,  \* parse_trips: the value returned by find_timetable
  trips,      \* the list returned by parse_trips
  filtered,   \* the list returned by filter_trips (main rebinds `trips`)
  json_out,   \* the document written to the output file, if written
  stdout,     \* the lines printed
  io,         \* network and file operations performed so far, in order
  error       \* the exception that ended the run, or NoError

vars == <<args, env, pc, html, values, timetable, trips, filtered, json_out,
          stdout, io, error>>

\* ------------------------------------------------------------------- inputs
Weekdays == <<1, 2, 3, 4, 5>>
Daily == <<1, 2, 3, 4, 5, 6, 7>>
Weekend == <<6, 7>>

T0705 == RawTime(7, 5, 0, <<>>, 180)
T0810 == RawTime(8, 10, 0, <<>>, 180)
T0705frac == RawTime(7, 5, 0, <<5, 0, 0>>, 180)
T0730utc == RawTime(7, 30, 0, <<>>, 0)

Entry(raw, sched) ==
  [departureDateTime |-> raw, departure_name |-> Some("Sputnik"),
   arrival_name |-> Some("Moskva"), number |-> Some("6001"), schedule |-> sched]

SeqsUpTo(S, n) == UNION {[1..k -> S] : k \in 0..n}

Reverse(s) == [i \in 1..Len(s) |-> s[Len(s) + 1 - i]]

\* every set of weekday numbers, listed ascending, descending and with a
\* repeated element
DaySeqs ==
  UNION {{Ascending(S), Reverse(Ascending(S)),
          Ascending(S) \o (IF S = {} THEN <<>> ELSE <<Ascending(S)[1]>>)}
         : S \in SUBSET (1..7)}

TimesTimetables ==
  SeqsUpTo({Entry(t, Some(Weekdays)) : t \in {T0705, T0810, T0705frac, T0730utc}},
           MaxTrips)

LabelTimetables ==
  SeqsUpTo({Entry(t, Some(d)) : t \in {T0705, T0810}, d \in {Weekdays, Daily, Weekend}},
           MaxTrips)

DefectEntries ==
  [departureDateTime : {T0810, MalformedTime},
   departure_name : {Some("Sputnik"), Absent},
   arrival_name : {Some("Moskva"), Absent},
   number : {Some("6001"), Absent},
   schedule : {Some(Weekdays), Absent}]

DefectTimetables ==
  {[i \in 1..MaxTrips |-> IF i = p THEN e ELSE Entry(T0705, Some(Daily))]
     : p \in 1..MaxTrips, e \in DefectEntries}

ClassifyTimetables == {<<Entry(T0705, Some(d))>> : d \in DaySeqs}

\* pages
PageOf(data) == [script |-> "text", json_ok |-> TRUE, data |-> data]
NoScriptPage == [script |-> "absent", json_ok |-> FALSE, data |-> Null]
EmptyScriptPage == [script |-> "empty", json_ok |-> FALSE, data |-> Null]
BadJsonPage == [script |-> "text", json_ok |-> FALSE, data |-> Null]

KV(k, v) == [key |-> k, val |-> v]
PagePropsOf(pp) == Map(<<KV("page", Null), KV("props", pp)>>)
DataOf(vals) ==
  PagePropsOf(Map(<<KV("pageProps", Map(<<KV("query", Null), KV("values", vals)>>))>>))

Section(tt) == Map(<<KV("title", Null), KV("timetable", List(tt))>>)
GoodPage(tt) == PageOf(DataOf(Map(<<KV("45807", Section(tt))>>)))

TimetableA == <<Entry(T0705, Some(Daily))>>
TimetableB == <<Entry(T0810, Some(Weekdays))>>

\* what a top-level value of `values` can be
SectionValues ==
  {Null, List(<<>>), Map(<<KV("title", Null)>>), Section(TimetableA), Section(TimetableB),
   Map(<<KV("inner", Section(TimetableA))>>)}

SectionKeys == {ToString(n) : n \in 1..MaxSections}

ValuesMaps ==
  {Map([i \in 1..Len(ks) |-> KV(ks[i], vs[i])]) :
     <<ks, vs>> \in UNION {({k \in [1..n -> SectionKeys] :
                               \A i, j \in 1..n : i # j => k[i] # k[j]})
                            \X [1..n -> SectionValues] : n \in 0..MaxSections}}

\* payloads with a part of props.pageProps.values absent or not a mapping
BrokenPaths ==
  {Null, List(<<>>), EmptyMap, Map(<<KV("page", Null)>>),
   PagePropsOf(Null), PagePropsOf(EmptyMap), PagePropsOf(Map(<<KV("pageProps", Null)>>)),
   PagePropsOf(Map(<<KV("pageProps", EmptyMap)>>)),
   PagePropsOf(Map(<<KV("pageProps", Map(<<KV("query", Null)>>))>>)),
   DataOf(Null), DataOf(List(<<>>)),
   DataOf(Map(<<KV("45807", Map(<<KV("timetable", Null)>>))>>))}

PageInputs ==
  {NoScriptPage, EmptyScriptPage, BadJsonPage}
  \cup {PageOf(d) : d \in BrokenPaths}
  \cup {PageOf(DataOf(v)) : v \in ValuesMaps}

LocalArgs(mode) ==
  [html |-> DEFAULT_HTML_PATH, url |-> "", save_html |-> Absent,
   filter_mode |-> mode, json_out |-> Absent]
LocalEnv(page) ==
  [fetch_ok |-> FALSE, net_page |-> NoScriptPage, file_exists |-> TRUE, file_page |-> page]

Start ==
  /\ pc = "load"
  /\ html = NoScriptPage
  /\ values = Null
  /\ timetable = Null
  /\ trips = <<>>
  /\ filtered = <<>>
  /\ json_out = Absent
  /\ stdout = <<>>
  /\ io = <<>>
  /\ error = NoError

\* runs that differ in the command line and in what the world holds
InitSources ==
  /\ args \in [html : {DEFAULT_HTML_PATH}, url : {"", DEFAULT_URL},
               save_html : {Absent, Some("copy.html")},
               filter_mode : FilterChoices, json_out : {Absent, Some("out.json")}]
  /\ env \in [fetch_ok : BOOLEAN, file_exists : BOOLEAN,
              net_page : {GoodPage(TimetableA), NoScriptPage},
              file_page : {GoodPage(TimetableB), BadJsonPage}]

\* runs over a local file that differ in the page
InitPages ==
  /\ args = LocalArgs("all")
  /\ env \in {LocalEnv(p) : p \in PageInputs}

\* runs over a local file that differ in the timetable
InitTimetables ==
  \/ /\ args = LocalArgs("all")
     /\ env \in {LocalEnv(GoodPage(tt)) :
                   tt \in TimesTimetables \cup DefectTimetables \cup ClassifyTimetables}
  \/ /\ args \in {LocalArgs(m) : m \in FilterChoices}
     /\ env \in {LocalEnv(GoodPage(tt)) : tt \in LabelTimetables}

Init == Start /\ (InitSources \/ InitPages \/ InitTimetables)

\* ------------------------------------------------------------------ actions
Fail(e) == pc' = "failed" /\ error' = e

\* main, lines 148-150
MainLoadHtml ==
  /\ pc = "load"
  /\ LET html_save_target == IF args.save_html.has THEN args.save_html
                             ELSE Some(DEFAULT_HTML_PATH)
         r == load_html(env, args.html, args.url,
                        IF args.url # "" THEN html_save_target ELSE Absent)
     IN /\ io' = io \o r.io
        /\ IF r.ok THEN html' = r.html /\ pc' = "locate" /\ error' = error
           ELSE html' = html /\ Fail(r.error)
  /\ UNCHANGED <<args, env, values, timetable, trips, filtered, json_out, stdout>>

\* parse_trips, lines 69-76
ParseLocate ==
  /\ pc = "locate"
  /\ LET r == locate_values(html)
     IN IF r.ok THEN values' = r.values /\ pc' = "find" /\ error' = error
        ELSE values' = values /\ Fail(r.error)
  /\ UNCHANGED <<args, env, html, timetable, trips, filtered, json_out, stdout, io>>

\* parse_trips, line 77
ParseFind ==
  /\ pc = "find"
  /\ LET r == find_timetable(values)
     IN IF r.ok THEN timetable' = r.timetable /\ pc' = "normalize" /\ error' = error
        ELSE timetable' = timetable /\ Fail(r.error)
  /\ UNCHANGED <<args, env, html, values, trips, filtered, json_out, stdout, io>>

\* parse_trips, lines 79-95
ParseNormalize ==
  /\ pc = "normalize"
  /\ IF timetable.kind # "list"
     THEN trips' = trips /\ Fail(Err("TypeError", 80))
     ELSE LET r == normalize_loop(timetable.items, 1, <<>>)
          IN IF r.ok THEN trips' = r.trips /\ pc' = "sort" /\ error' = error
             ELSE trips' = trips /\ Fail(r.error)
  /\ UNCHANGED <<args, env, html, values, timetable, filtered, json_out, stdout, io>>

\* parse_trips, lines 98-99
ParseSort ==
  /\ pc = "sort"
  /\ trips' = sort_trips(trips)
  /\ pc' = "filter"
  /\ UNCHANGED <<args, env, html, values, timetable, filtered, json_out, stdout, io,
                 error>>

\* main, line 152
MainFilter ==
  /\ pc = "filter"
  /\ filtered' = filter_trips(trips, args.filter_mode)
  /\ pc' = "write"
  /\ UNCHANGED <<args, env, html, values, timetable, trips, json_out, stdout, io, error>>

\* datetime.now(), line 154
Clock == {"2024-05-01T06:00:00", "2024-05-01T06:00:01"}

\* main, lines 154-165
MainWrite ==
  /\ pc = "write"
  /\ \E request_time \in Clock :
       json_out' = Some([requested_at |-> request_time,
                         filter |-> args.filter_mode,
                         trips |-> filtered])
  /\ io' = Append(io, [op |-> "write",
                       target |-> IF args.json_out.has THEN args.json_out.v
                                  ELSE DEFAULT_JSON_PATH])
  /\ pc' = "print"
  /\ UNCHANGED <<args, env, html, values, timetable, trips, filtered, stdout, error>>

\* one printed trip line, line 171
TripLine(trip) == <<trip.time, trip.from, "->", trip.to, trip.days_label>>

\* main, lines 168-171
MainPrint ==
  /\ pc = "print"
  /\ stdout' = <<<<"Request date:", json_out.v.requested_at>>>>
               \o [i \in 1..Len(filtered) |-> TripLine(filtered[i])]
  /\ pc' = "done"
  /\ UNCHANGED <<args, env, html, values, timetable, trips, filtered, json_out, io,
                 error>>

Next ==
  \/ MainLoadHtml
  \/ ParseLocate
  \/ ParseFind
  \/ ParseNormalize
  \/ ParseSort
  \/ MainFilter
  \/ MainWrite
  \/ MainPrint

Spec == Init /\ [][Next]_vars

\* ------------------------------------------------------- stages of the run
LoadErrors == {Err("HTTPError", 26), Err("FileNotFoundError", 36)}
LocateErrors == {Err("ValueError", 72), Err("JSONDecodeError", 74),
                 Err("AttributeError", 76), Err("TypeError", 74)}
FindErrors == {Err("AttributeError", 49), Err("ValueError", 53)}

\* the named step of the run has been executed (it returned or raised)
LoadDone == pc # "load"
LocateDone == LoadDone /\ pc # "locate" /\ error \notin LoadErrors
FindDone == LocateDone /\ pc # "find" /\ error \notin LocateErrors
NormalizeDone == FindDone /\ pc # "normalize" /\ error \notin FindErrors
SortDone == NormalizeDone /\ pc \notin {"sort", "failed"}
FilterDone == SortDone /\ pc # "filter"
WriteDone == pc \in {"print", "done"}

JsonPath == IF args.json_out.has THEN args.json_out.v ELSE DEFAULT_JSON_PATH
NoOutput ==
  /\ json_out = Absent
  /\ stdout = <<>>
  /\ \A i \in 1..Len(io) : ~(io[i].op = "write" /\ io[i].target = JsonPath)

\* ------------------------------------------------------------------ claims

\* C1: every record parse_trips produces has a days_label that is one of
\* three labels: "budni" (weekdays) exactly for the day set {1..5},
\* "ezhednevno" (daily) exactly for {1..7}, and an explicit "partial" label,
\* never None, for every other set.
C1_LabelTotal ==
  NormalizeDone /\ pc # "failed" =>
    \A i \in 1..Len(trips) :
      LET S == SeqToSet(trips[i].days)
      IN /\ trips[i].days_label \in {"budni", "ezhednevno", "partial"}
         /\ trips[i].days_label = "budni" <=> S = 1..5
         /\ trips[i].days_label = "ezhednevno" <=> S = 1..7

\* the departure instant of an entry: minutes since midnight UTC, seconds,
\* microseconds
Instant(raw) ==
  LET dt == fromisoformat(raw)
  IN <<dt.hour * 60 + dt.minute - dt.utcoffset, dt.second, dt.microsecond>>

InstantLess(a, b) ==
  \/ a[1] < b[1]
  \/ a[1] = b[1] /\ a[2] < b[2]
  \/ a[1] = b[1] /\ a[2] = b[2] /\ a[3] < b[3]

\* C2: the list parse_trips returns is the permutation of the normalized
\* entries that is ascending by departure instant, entries with the same
\* instant keeping their input order.
C2_SortedByInstant ==
  SortDone =>
    LET items == timetable.items
        n == Len(items)
    IN /\ Len(trips) = n
       /\ \E p \in [1..n -> 1..n] :
            /\ \A k, l \in 1..n : k # l => p[k] # p[l]
            /\ \A k \in 1..n : trips[k] = normalize_item(items[p[k]]).trip
            /\ \A k, l \in 1..n : k < l =>
                 LET a == Instant(items[p[k]].departureDateTime)
                     b == Instant(items[p[l]].departureDateTime)
                 IN InstantLess(a, b) \/ (a = b /\ p[k] < p[l])

\* the positions of trips whose label is m, and the k-th smallest of a set
Matching(m) == {i \in 1..Len(trips) : trips[i].days_label = m}
Kth(S, k) == CHOOSE x \in S : Cardinality({y \in S : y < x}) = k - 1

\* C3: with "all", "vse" or "vsyo" filter_trips returns the sequence it was
\* given; with a label it returns exactly the trips carrying that label, in
\* their relative order (possibly none), never more than it was given.  The
\* list it was given still holds every normalized entry afterwards.
C3_FilterIsSubsequence ==
  FilterDone =>
    /\ Len(trips) = Len(timetable.items)
    /\ IF args.filter_mode \in {"all", "vse", "vsyo"}
       THEN filtered = trips
       ELSE /\ Len(filtered) = Cardinality(Matching(args.filter_mode))
            /\ Len(filtered) <= Len(trips)
            /\ \A k \in 1..Len(filtered) :
                 filtered[k] = trips[Kth(Matching(args.filter_mode), k)]

C3_Witness ==
  /\ FilterDone
  /\ args.filter_mode = "budni"
  /\ Len(trips) = 3
  /\ Matching("budni") = {1, 3}
  /\ filtered = <<trips[1], trips[3]>>

\* the positions of the top-level values that are mappings with a
\* "timetable" key
Qualifying == {i \in 1..Len(values.items) :
                 /\ values.items[i].val.kind = "map"
                 /\ \E j \in 1..Len(values.items[i].val.items) :
                      values.items[i].val.items[j].key = "timetable"}

FirstQualifying == CHOOSE i \in Qualifying : \A j \in Qualifying : i <= j

\* C4: over a `values` mapping, find_timetable returns the "timetable"
\* member of the first top-level value that is a mapping holding that key,
\* and raises the not-found error (line 53) exactly when no top-level value
\* qualifies.
C4_FirstQualifying ==
  FindDone /\ values.kind = "map" =>
    /\ error = Err("ValueError", 53) <=> Qualifying = {}
    /\ Qualifying = {} => pc = "failed"
    /\ Qualifying # {} =>
         \E j \in 1..Len(values.items[FirstQualifying].val.items) :
           /\ values.items[FirstQualifying].val.items[j].key = "timetable"
           /\ timetable = values.items[FirstQualifying].val.items[j].val

C4_Witness ==
  /\ FindDone
  /\ values.kind = "map"
  /\ Len(values.items) = 3
  /\ Qualifying = {2, 3}
  /\ values.items[1].val = Map(<<KV("inner", Section(TimetableA))>>)
  /\ timetable = List(TimetableB)
  /\ values.items[3].val = Section(TimetableA)

\* C5: a page without the __NEXT_DATA__ script element, or with an empty
\* one, ends the run with the error of line 72, which no other failure of
\* the run produces (an undecodable text gives JSONDecodeError, a missing
\* timetable the error of line 53); the output file is not written and no
\* line is printed.
C5_PayloadNotFound ==
  LocateDone =>
    /\ html.script \in {"absent", "empty"} <=> error = Err("ValueError", 72)
    /\ error = Err("ValueError", 72) => pc = "failed" /\ NoOutput
    /\ html.script = "text" /\ ~html.json_ok =>
         error = Err("JSONDecodeError", 74) /\ pc = "failed" /\ NoOutput

C5_Witness ==
  /\ pc = "failed"
  /\ html.script = "empty"
  /\ error = Err("ValueError", 72)
  /\ io = <<[op |-> "read", target |-> DEFAULT_HTML_PATH]>>

\* the entries of the located timetable that cannot be normalized, and the
\* error the entry at position i raises
BadEntries ==
  {i \in 1..Len(timetable.items) :
     \/ ~timetable.items[i].departureDateTime.wellFormed
     \/ ~timetable.items[i].departure_name.has
     \/ ~timetable.items[i].arrival_name.has}

EntryError(i) ==
  IF ~timetable.items[i].departureDateTime.wellFormed THEN Err("ValueError", 81)
  ELSE IF ~timetable.items[i].departure_name.has THEN Err("KeyError", 89)
  ELSE Err("KeyError", 90)

\* C6: one entry with a malformed departure timestamp or without a route
\* name aborts the run with that entry's error, wherever the entry stands:
\* no trip list, no output file, no printed line.  An entry without a train
\* number or without schedule days does not abort: they become "" and the
\* empty sequence.
C6_BadEntryAborts ==
  NormalizeDone /\ timetable.kind = "list" =>
    /\ BadEntries # {} =>
         /\ pc = "failed"
         /\ error = EntryError(CHOOSE i \in BadEntries : \A j \in BadEntries : i <= j)
         /\ trips = <<>>
         /\ filtered = <<>>
         /\ NoOutput
    /\ BadEntries = {} =>
         /\ pc # "failed"
         /\ error = NoError
         /\ Len(trips) = Len(timetable.items)
    /\ pc = "sort" =>
         \A i \in 1..Len(trips) :
           /\ trips[i].train_number =
                (IF timetable.items[i].number.has THEN timetable.items[i].number.v
                 ELSE "")
           /\ trips[i].days =
                (IF timetable.items[i].schedule.has THEN timetable.items[i].schedule.v
                 ELSE <<>>)

C6_Witness ==
  /\ pc = "failed"
  /\ timetable.kind = "list"
  /\ Len(timetable.items) = 3
  /\ BadEntries = {3}
  /\ timetable.items[3].departureDateTime.wellFormed
  /\ ~timetable.items[3].arrival_name.has
  /\ ~timetable.items[3].number.has
  /\ error = Err("KeyError", 90)

\* the scenario of C7: 08:10 on {1..5}, 07:05 on {1..7}, 07:05 on {6,7}
ScenarioTimetable ==
  <<Entry(T0810, Some(Weekdays)), Entry(T0705, Some(Daily)), Entry(T0705, Some(Weekend))>>

InScenario == FilterDone /\ timetable = List(ScenarioTimetable)

Str0705 == <<48, 55, 58, 48, 53>>
Str0810 == <<48, 56, 58, 49, 48>>

ScenarioOrder ==
  /\ Len(trips) = 3
  /\ <<trips[1].time, trips[2].time, trips[3].time>> = <<Str0705, Str0705, Str0810>>
  /\ <<trips[1].days, trips[2].days, trips[3].days>> = <<Daily, Weekend, Weekdays>>

ScenarioFilter ==
  /\ args.filter_mode = "ezhednevno" => filtered = <<trips[1]>>
  /\ args.filter_mode = "all" => filtered = trips

Has(d, k) == \E i \in 1..Len(d.items) : d.items[i].key = k
Member(d, k) == d.items[CHOOSE i \in 1..Len(d.items) : d.items[i].key = k].val

LacksSegment ==
  /\ html.script = "text" /\ html.json_ok /\ html.data.kind = "map"
  /\ \/ ~Has(html.data, "props")
     \/ /\ Has(html.data, "props")
        /\ Member(html.data, "props").kind = "map"
        /\ \/ ~Has(Member(html.data, "props"), "pageProps")
           \/ /\ Member(Member(html.data, "props"), "pageProps").kind = "map"
              /\ ~Has(Member(Member(html.data, "props"), "pageProps"), "values")

\* C8: when the decoded payload lacks a segment of props.pageProps.values,
\* the walk yields an empty mapping and the run ends with the not-found
\* error of find_timetable (line 53), never with an error of the walk.
C8_MissingSegment ==
  LocateDone /\ LacksSegment =>
    /\ values = EmptyMap
    /\ pc \in {"find", "failed"}
    /\ pc = "failed" => error = Err("ValueError", 53)
    /\ NoOutput

C8_Witness ==
  /\ LacksSegment
  /\ Has(html.data, "props")
  /\ ~Has(Member(html.data, "props"), "pageProps")
  /\ pc = "failed"
  /\ error = Err("ValueError", 53)

Ops(kind) == {i \in 1..Len(io) : io[i].op = kind}
JsonWrites == {i \in Ops("write") : io[i].target = JsonPath}
HtmlWrites == Ops("write") \ JsonWrites

\* C9: a run uses one input source: with a non-empty url the page is
\* downloaded and the local file is never read, with the empty url the file
\* is read and nothing is downloaded; the page is saved only after a
\* download; a failed download or a missing file ends the run with no other
\* source tried; the output file is written once, last, and only after
\* load, parse and filter have succeeded.
C9_OneSource ==
  /\ args.url # "" => Ops("read") = {}
  /\ args.url = "" => Ops("get") = {} /\ HtmlWrites = {}
  /\ Cardinality(Ops("get") \cup Ops("read")) <= 1
  /\ LoadDone /\ args.url # "" =>
       /\ Ops("get") = {1}
       /\ IF env.fetch_ok
          THEN html = env.net_page /\ HtmlWrites = {2} /\ error \notin LoadErrors
          ELSE pc = "failed" /\ error = Err("HTTPError", 26) /\ Len(io) = 1
  /\ LoadDone /\ args.url = "" =>
       IF env.file_exists
       THEN html = env.file_page /\ Ops("read") = {1} /\ error \notin LoadErrors
       ELSE pc = "failed" /\ error = Err("FileNotFoundError", 36) /\ io = <<>>
  /\ ~LoadDone => io = <<>>
  /\ IF WriteDone
     THEN /\ JsonWrites = {Len(io)}
          /\ json_out.has
          /\ FilterDone
          /\ error = NoError
          /\ json_out.v.trips = filter_trips(trips, args.filter_mode)
     ELSE JsonWrites = {} /\ ~json_out.has

C9_Witness ==
  /\ pc = "done"
  /\ args.url = DEFAULT_URL
  /\ env.file_exists
  /\ args.save_html = Absent
  /\ io = <<[op |-> "get", target |-> DEFAULT_URL],
            [op |-> "write", target |-> DEFAULT_HTML_PATH],
            [op |-> "write", target |-> DEFAULT_JSON_PATH]>>

\* the printed lines agree with the document's trips, one line per trip in
\* the same order after the request line, and each trip's days are the
\* schedule days of a timetable entry in the order received
DocumentBody ==
  /\ json_out.v.filter = args.filter_mode
  /\ json_out.v.trips = filtered
  /\ \A k \in 1..Len(json_out.v.trips) :
       \E i \in 1..Len(timetable.items) :
         /\ json_out.v.trips[k].departure_iso
              = isoformat(fromisoformat(timetable.items[i].departureDateTime))
         /\ json_out.v.trips[k].days =
              (IF timetable.items[i].schedule.has THEN timetable.items[i].schedule.v
               ELSE <<>>)
  /\ pc = "done" =>
       /\ Len(stdout) = 1 + Len(json_out.v.trips)
       /\ \A k \in 1..Len(json_out.v.trips) :
            LET t == json_out.v.trips[k]
            IN stdout[k + 1] = <<t.time, t.from, "->", t.to, t.days_label>>

\* C10 as stated: the written document has exactly the fields requestedAt,
\* filter, trips, and each trip exactly the fields time, departureIso, from,
\* to, trainNumber, days, daysLabel.
C10_AsStated ==
  WriteDone =>
    /\ DOMAIN json_out.v = {"requestedAt", "filter", "trips"}
    /\ \A k \in 1..Len(json_out.v.trips) :
         DOMAIN json_out.v.trips[k] =
           {"time", "departureIso", "from", "to", "trainNumber", "days", "daysLabel"}
    /\ DocumentBody

\* C10 amended: the written document has exactly the fields requested_at,
\* filter, trips; filter is the requested mode and trips the filtered
\* sequence; each trip has exactly the fields time, departure_iso, from, to,
\* train_number, days, days_label, days being the entry's schedule days in
\* the order received; one line is printed per trip, in the same order.
C10_Amended ==
  WriteDone =>
    /\ DOMAIN json_out.v = {"requested_at", "filter", "trips"}
    /\ \A k \in 1..Len(json_out.v.trips) :
         DOMAIN json_out.v.trips[k] =
           {"time", "departure_iso", "from", "to", "train_number", "days", "days_label"}
    /\ DocumentBody

C10_Witness ==
  /\ pc = "done"
  /\ Len(json_out.v.trips) = 1
  /\ json_out.v.trips[1].days = <<7, 6, 5, 4, 3, 2, 1>>
  /\ Len(stdout) = 2

====
